---- MODULE Spec2Model ----
(***************************************************************************)
(* MapMaker (streamlit_app.py): the tabular reader (read_data, read_file), *)
(* the schema validator (validate_data) and the plot builder (create_plot, *)
(* create_quantitative_plot, create_nominal_plot).                         *)
(*                                                                         *)
(* Every function is modelled as an operator that computes what the code   *)
(* computes, and as an action that applies it to one call.  Init draws the *)
(* call (the function and its arguments) from bounded sets; the action of  *)
(* the called function stores its outcome and the post-call state of the   *)
(* mutable objects the caller passed (the DataFrame, the tooltip list).    *)
(*                                                                         *)
(* Python str values are sequences of one-character strings, so that       *)
(* str.lower(), str.endswith(), f-string interpolation and iteration over  *)
(* a str are computed, not assumed.                                        *)
(***************************************************************************)
EXTENDS Integers, Sequences, FiniteSets, TLC

VARIABLES
    pc,               \* "call": the call is pending; "done": it has returned or raised
    fn,               \* the function called
    args,             \* the arguments of the call, as the caller wrote them
    data,             \* the caller's DataFrame object (validate_data renames in place)
    tooltip_columns,  \* the caller's tooltip list object (create_plot), else PyNone
    ret               \* the outcome: a returned value or a raised exception

vars == <<pc, fn, args, data, tooltip_columns, ret>>

----------------------------------------------------------------------------
(* Bounds of the model. *)

MaxCols == 2        \* a table has 0..MaxCols columns
MaxRows == 1        \* a table has 0..MaxRows rows
MaxTooltips == 2    \* a tooltip list names 0..MaxTooltips columns
MaxPlotRows == 2    \* a table handed to the plot builder has 0..MaxPlotRows rows

----------------------------------------------------------------------------
(* Python values. *)

PyNone == [t |-> "NoneType"]
Omitted == [t |-> "omitted"]          \* a parameter the call does not pass
PyStr(s) == [t |-> "str", v |-> s]
PyList(l) == [t |-> "list", items |-> l]
PyFloat(tenths) == [t |-> "float", tenths |-> tenths]

Returned(value) == [kind |-> "return", value |-> value]
Raised(exc, msg) == [kind |-> "raise", exc |-> exc, msg |-> msg]
NoOutcome == [kind |-> "pending"]

(* str.lower() on the characters the model uses. *)
LowerChar(c) ==
    CASE c = "N" -> "n" [] c = "I" -> "i" [] c = "S" -> "s" [] c = "C" -> "c"
      [] c = "O" -> "o" [] c = "D" -> "d" [] c = "E" -> "e" [] c = "V" -> "v"
      [] c = "X" -> "x" [] c = "L" -> "l" [] c = "A" -> "a" [] c = "T" -> "t"
      [] OTHER -> c

UpperChar(c) ==
    CASE c = "n" -> "N" [] c = "i" -> "I" [] c = "s" -> "S" [] c = "c" -> "C"
      [] c = "o" -> "O" [] c = "d" -> "D" [] c = "e" -> "E" [] c = "v" -> "V"
      [] c = "x" -> "X" [] c = "l" -> "L" [] c = "a" -> "A" [] c = "t" -> "T"
      [] OTHER -> c

Lower_identity(s) == s

Lower(s) == [i \in 1..Len(s) |-> LowerChar(s[i])]

EndsWith(s, suffix) ==
    /\ Len(suffix) <= Len(s)
    /\ SubSeq(s, Len(s) - Len(suffix) + 1, Len(s)) = suffix

----------------------------------------------------------------------------
(* DataFrames.  A DataFrame is its column labels, and per column the dtype *)
(* and the cells.  A cell is [type, val]; the dtype of a column is what    *)
(* pandas stores for it, and restricts the cells the column can hold.      *)

S_niscode == <<"n","i","s","c","o","d","e">>
S_NisCode == <<"N","i","s","C","o","d","e">>
S_NISCODE == <<"N","I","S","C","O","D","E">>
S_Name == <<"N","a","m","e">>
S_population == <<"p","o","p">>

ColumnNames == {S_niscode, S_NisCode, S_NISCODE, S_Name}

Cell(type, val) == [type |-> type, val |-> val]

CellsOf(dtype) ==
    CASE dtype = "int64" -> {Cell("int64", "1000")}
      [] dtype = "int32" -> {Cell("int32", "1000")}
      [] dtype = "float64" -> {Cell("float", "1000.0"), Cell("null", "NaN")}
      [] dtype = "object" -> {Cell("text", "Antwerp"), Cell("null", "None")}

DTypes == {"int64", "int32", "float64", "object"}

IsInt64(cell) == cell.type = "int64"

Column(name, dtype, cells) == [name |-> name, dtype |-> dtype, cells |-> cells]

ColumnsOfHeight(n) ==
    UNION {{Column(name, dtype, cells) :
                name \in ColumnNames, cells \in [1..n -> CellsOf(dtype)]} :
           dtype \in DTypes}

SeqsUpTo(S, n) == UNION {[1..k -> S] : k \in 0..n}

Labels(df) == [i \in 1..Len(df) |-> df[i].name]

----------------------------------------------------------------------------
(* validate_data *)

MSG_TOO_FEW == "data should have at least a NIS code and a data column"
MSG_MULTIPLE == "multiple columns have NIS code name"
MSG_MISSING == "NIS code column is missing"
MSG_DTYPE == "data type for NIS code is incorret, should be integer"

(* nis_code_pos: the (1-based) positions whose label lower-cases to       *)
(* 'niscode', in column order.                                            *)
NisCodePos_caseSensitive(df) ==
    SelectSeq([i \in 1..Len(df) |-> i], LAMBDA i : df[i].name = S_niscode)

NisCodePos(df) ==
    SelectSeq([i \in 1..Len(df) |-> i], LAMBDA i : Lower(df[i].name) = S_niscode)

(* columns[nis_code_pos[0]] = 'niscode'; data.columns = columns *)
RenameColumn_first(df, pos) == [df EXCEPT ![1].name = S_niscode]

RenameColumn(df, pos) == [df EXCEPT ![pos].name = S_niscode]

(* data.niscode: the column labelled 'niscode' *)
NisCodeColumn(df) == df[CHOOSE i \in 1..Len(df) : df[i].name = S_niscode]

(* len(data.columns) < 2 *)
TooFewColumns_onlyEmpty(df) == Len(df) < 1

TooFewColumns(df) == Len(df) < 2

(* data.niscode.dtype != np.int64 *)
DTypeRejected_coercible(dtype) == dtype \notin {"int64", "int32", "float64"}

DTypeRejected(dtype) == dtype # "int64"

(* The outcome of validate_data(df) and the DataFrame object afterwards. *)
ValidateData(df) ==
    IF TooFewColumns(df)
    THEN [ret |-> Raised("ValueError", MSG_TOO_FEW), data |-> df]
    ELSE LET nis_code_pos == NisCodePos(df) IN
         IF Len(nis_code_pos) > 1
         THEN [ret |-> Raised("ValueError", MSG_MULTIPLE), data |-> df]
         ELSE IF Len(nis_code_pos) = 0
         THEN [ret |-> Raised("ValueError", MSG_MISSING), data |-> df]
         ELSE LET renamed == RenameColumn(df, nis_code_pos[1]) IN
              IF DTypeRejected(NisCodeColumn(renamed).dtype)
              THEN [ret |-> Raised("ValueError", MSG_DTYPE), data |-> renamed]
              ELSE [ret |-> Returned(PyNone), data |-> renamed]

----------------------------------------------------------------------------
(* read_data, read_file.  What pandas parses is outside the program; the   *)
(* value returned is modelled as the pandas call that produces it: the     *)
(* parser, the source handed to it and the options passed.                 *)

S_csv == <<".","c","s","v">>
S_xlsx == <<".","x","l","s","x">>
S_utf8 == <<"u","t","f","-","8">>
S_latin1 == <<"i","s","o","-","8","8","5","9","-","1">>

(* f'file type of ""{name}"" is unknown' *)
UnknownTypeMessage(name) ==
    [before |-> "file type of \"\"", value |-> name, after |-> "\"\" is unknown"]

(* a parameter with default None *)
OrNone(arg) == IF arg = Omitted THEN PyNone ELSE arg

ReadCsv(source, encoding, delimiter) ==
    [parser |-> "pd.read_csv", source |-> source,
     encoding |-> encoding, delimiter |-> delimiter]

ReadExcel(source) == [parser |-> "pd.read_excel", source |-> source]

ReadData(uri, encoding_arg, delimiter_arg) ==
    LET encoding == OrNone(encoding_arg)
        delimiter == OrNone(delimiter_arg)
        source == [kind |-> "path", of |-> uri]
    IN  IF EndsWith(Lower(uri), S_csv)
        THEN Returned(ReadCsv(source, encoding, delimiter))
        ELSE IF EndsWith(Lower(uri), S_xlsx)
        THEN Returned(ReadExcel(source))
        ELSE Raised("ValueError", UnknownTypeMessage(uri))

ReadFile(name, byte_stream, encoding_arg, delimiter_arg) ==
    LET encoding == OrNone(encoding_arg)
        delimiter == OrNone(delimiter_arg)
        source == [kind |-> "io.BytesIO", of |-> byte_stream]
    IN  IF EndsWith(Lower(name), S_csv)
        THEN Returned(ReadCsv(source, encoding, delimiter))
        ELSE IF EndsWith(Lower(name), S_xlsx)
        THEN Returned(ReadExcel(source))
        ELSE Raised("ValueError", UnknownTypeMessage(name))

----------------------------------------------------------------------------
(* create_plot and its two presets.  An Altair chart is modelled as the    *)
(* declarative specification it holds: data, mark, encoding, transforms,   *)
(* and for a layered chart the layers bottom first.                        *)

S_Q == <<"Q">>
S_N == <<"N">>
S_O == <<"O">>
S_darkgrey == <<"d","a","r","k","g","r","e","y">>
S_lightgrey == <<"l","i","g","h","t","g","r","e","y">>
S_reds == <<"r","e","d","s">>
S_blues == <<"b","l","u","e","s">>
S_white == <<"w","h","i","t","e">>
S_grey == <<"g","r","e","y">>
S_black == <<"b","l","a","c","k">>
S_Pop == <<"P","o","p">>

Width == 600
Height == 450

BE_GEO_URL == "https://gist.githubusercontent.com/jandot/.../belgium_municipalities_topojson.json"
BE_MUNICIPALITIES_FEATURE == "BE_municipalities"

(* alt.topo_feature(url, feature) *)
CreateTopoData(url, feature) ==
    [url |-> url, format |-> [type |-> "topojson", feature |-> feature]]

(* a parameter left out of the call takes the default of the signature *)
Default(arg, default) == IF arg = Omitted THEN default ELSE arg

(* what `for x in value` yields: the items of a list, the one-character    *)
(* strings of a str; None is not iterable                                  *)
Iterable(value) == value.t \in {"list", "str"}

Iterate(value) ==
    IF value.t = "list" THEN value.items
    ELSE [i \in 1..Len(value.v) |-> PyStr(<<value.v[i]>>)]

(* f'{a}:{b}' *)
FormatField(a, b) == PyStr(a.v \o <<":">> \o b.v)

(* Lines 159-161: lookup_columns is a new list holding column_name, then   *)
(* extended by the tooltip columns.  The result is the state of the two    *)
(* list objects afterwards.                                                *)
BuildLookupColumns_aliased(column_name, tooltips) ==
    IF tooltips # PyNone
    THEN LET both == <<column_name>> \o Iterate(tooltips)
         IN  [lookup_columns |-> both,
              tooltip_columns |-> IF tooltips.t = "list" THEN PyList(both)
                                  ELSE tooltips]
    ELSE [lookup_columns |-> <<column_name>>, tooltip_columns |-> tooltips]

BuildLookupColumns(column_name, tooltips) ==
    LET fresh == [lookup_columns |-> <<column_name>>,
                  tooltip_columns |-> tooltips]
    IN  IF tooltips # PyNone
        THEN [fresh EXCEPT !.lookup_columns = @ \o Iterate(tooltips)]
        ELSE fresh

(* Lines 164-177: the chart the code names `base`, the data-coloured layer *)
DataLayer(topo_data, data_arg, column_name, data_type, tooltips, lookup_columns, legend_title, scheme) ==
    [data |-> topo_data,
     mark |-> [type |-> "geoshape"],
     encoding |->
        [color |-> [shorthand |-> FormatField(column_name, data_type),
                    legend |-> [title |-> legend_title],
                    scale |-> [scheme |-> scheme]],
         tooltip |-> [i \in 1..Len(Iterate(tooltips)) |->
                        FormatField(Iterate(tooltips)[i], PyStr(S_N))]],
     transform |-> <<[lookup |-> "properties.CODE_INS",
                      from |-> [data |-> data_arg, key |-> S_niscode,
                                fields |-> lookup_columns]]>>,
     width |-> Width,
     height |-> Height]

(* Lines 178-181: the outline layer filled with the missing colour *)
OutlineLayer(topo_data, stroke, strokeWidth, missing_color) ==
    [data |-> topo_data,
     mark |-> [type |-> "geoshape", stroke |-> stroke, strokeWidth |-> strokeWidth],
     encoding |-> [color |-> [value |-> missing_color],
                   opacity |-> [value |-> PyFloat(9)]],
     transform |-> <<>>]

(* chart + chart: a layered chart, the left operand at the bottom *)
Layered_swapped(bottom, top) == [layer |-> <<top, bottom>>]

Layered(bottom, top) == [layer |-> <<bottom, top>>]

(* create_plot(topo_data, data, column_name, data_type, tooltip_columns=None, *)
(*             stroke='darkgrey', strokeWidth=0.9, legend_title=None,         *)
(*             scheme='reds', missing_color='white')                          *)
(* The outcome, and the caller's tooltip list object afterwards.              *)
CreatePlot(topo_data, data_arg, column_name, data_type, tooltip_arg, stroke_arg, strokeWidth_arg, legend_title_arg, scheme_arg, missing_color_arg) ==
    LET tooltip_param == Default(tooltip_arg, PyNone)
        stroke == Default(stroke_arg, PyStr(S_darkgrey))
        strokeWidth == Default(strokeWidth_arg, PyFloat(9))
        legend_param == Default(legend_title_arg, PyNone)
        scheme == Default(scheme_arg, PyStr(S_reds))
        missing_color == Default(missing_color_arg, PyStr(S_white))
        lists == BuildLookupColumns(column_name, tooltip_param)
        legend_title == IF legend_param = PyNone THEN column_name ELSE legend_param
    IN  IF ~Iterable(tooltip_param)
        THEN [ret |-> Raised("TypeError", "'NoneType' object is not iterable"),
              tooltip_columns |-> lists.tooltip_columns]
        ELSE [ret |-> Returned(Layered(
                        OutlineLayer(topo_data, stroke, strokeWidth, missing_color),
                        DataLayer(topo_data, data_arg, column_name, data_type,
                                  tooltip_param, lists.lookup_columns,
                                  legend_title, scheme))),
              tooltip_columns |-> lists.tooltip_columns]

(* create_quantitative_plot(topo_data, data, column_name, stroke='lightgrey', *)
(*     strokeWidth=0.5, legend_title=None, scheme='reds',                     *)
(*     missing_color='white'): the nine arguments are passed to create_plot   *)
(* by position.                                                               *)
CreateQuantitativePlot(topo_data, data_arg, column_name, stroke_arg, strokeWidth_arg, legend_title_arg, scheme_arg, missing_color_arg) ==
    LET stroke == Default(stroke_arg, PyStr(S_lightgrey))
        strokeWidth == Default(strokeWidth_arg, PyFloat(5))
        legend_title == Default(legend_title_arg, PyNone)
        scheme == Default(scheme_arg, PyStr(S_reds))
        missing_color == Default(missing_color_arg, PyStr(S_white))
    IN  CreatePlot(topo_data, data_arg, column_name, PyStr(S_Q),
                   stroke, strokeWidth, legend_title, scheme, missing_color, Omitted)

CreateNominalPlot(topo_data, data_arg, column_name, stroke_arg, strokeWidth_arg, legend_title_arg, scheme_arg, missing_color_arg) ==
    LET stroke == Default(stroke_arg, PyStr(S_lightgrey))
        strokeWidth == Default(strokeWidth_arg, PyFloat(5))
        legend_title == Default(legend_title_arg, PyNone)
        scheme == Default(scheme_arg, PyStr(S_reds))
        missing_color == Default(missing_color_arg, PyStr(S_white))
    IN  CreatePlot(topo_data, data_arg, column_name, PyStr(S_N),
                   stroke, strokeWidth, legend_title, scheme, missing_color, Omitted)

----------------------------------------------------------------------------
(* The calls Init draws from. *)

RECURSIVE CaseVariants(_)
CaseVariants(s) ==
    IF s = <<>> THEN {<<>>}
    ELSE {<<c>> \o rest : c \in {LowerChar(Head(s)), UpperChar(Head(s))},
                          rest \in CaseVariants(Tail(s))}

Stems == {<<>>, <<"a">>, <<"a",".","c","s","v">>, <<"a",".","x","l","s","x">>}

Extensions ==
    CaseVariants(S_csv) \cup CaseVariants(S_xlsx)
        \cup {<<>>, <<".","t","x","t">>, <<".","x","l","s">>, <<"c","s","v">>,
              <<".","c","s">>, <<".","c","s","v",".">>, <<"x","l","s","x">>}

FileNames == {stem \o ext : stem \in Stems, ext \in Extensions}

(* the options main offers (lines 210-212), or none passed *)
Encodings == {Omitted, PyStr(S_utf8), PyStr(S_latin1)}
Delimiters == {Omitted, PyStr(<<",">>), PyStr(<<";">>), PyStr(<<" ">>), PyStr(<<"\t">>)}

(* the niscode values of the tables handed to the plot builder *)
KeyCells == {Cell("int64", "1000"), Cell("int64", "11002")}

(* validated tables: the key column first, then two data columns *)
PlotTable(keys) ==
    <<Column(S_niscode, "int64", keys),
      Column(S_population, "int64", [r \in DOMAIN keys |-> Cell("int64", "50000")]),
      Column(S_Name, "object", [r \in DOMAIN keys |-> Cell("text", "Antwerp")])>>

DataColumns == {PyStr(S_population), PyStr(S_Name)}

(* DATA_TYPES.values() *)
DataTypeCodes == {PyStr(S_Q), PyStr(S_O), PyStr(S_N)}

TooltipLists == {PyList(l) : l \in SeqsUpTo(DataColumns, MaxTooltips)}

Strokes == {Omitted, PyStr(S_black)}
StrokeWidths == {Omitted, PyFloat(2)}
LegendTitles == {Omitted, PyStr(S_Pop)}
Schemes == {Omitted, PyStr(S_blues)}
MissingColors == {Omitted, PyStr(S_grey)}

(* properties.CODE_INS of the features the boundary dataset serves *)
FeatureCodes == {"1000", "11002", "21004"}

TopoMunicipalities == CreateTopoData(BE_GEO_URL, BE_MUNICIPALITIES_FEATURE)

PlotArgs(df, column_name, data_type, tooltips, stroke, strokeWidth, legend_title, scheme, missing_color) ==
    [topo_data |-> TopoMunicipalities, data |-> df, column_name |-> column_name,
     data_type |-> data_type, tooltip_columns |-> tooltips, stroke |-> stroke,
     strokeWidth |-> strokeWidth, legend_title |-> legend_title,
     scheme |-> scheme, missing_color |-> missing_color]

(* the call f(a) is pending; d and t are the caller's DataFrame and tooltip list *)
Start(f, a, d, t) ==
    /\ pc = "call"
    /\ fn = f
    /\ args = a
    /\ data = d
    /\ tooltip_columns = t
    /\ ret = NoOutcome

InitValidateData ==
    \E n \in 0..MaxRows, k \in 0..MaxCols :
        \E df \in [1..k -> ColumnsOfHeight(n)] :
            Start("validate_data", [data |-> df], df, PyNone)

InitRead ==
    \E f \in {"read_data", "read_file"}, name \in FileNames,
       encoding \in Encodings, delimiter \in Delimiters :
        Start(f, [name |-> name, byte_stream |-> "bytes",
                  encoding |-> encoding, delimiter |-> delimiter], PyNone, PyNone)

InitCreatePlot ==
    \E n \in 0..MaxPlotRows :
        \E keys \in [1..n -> KeyCells], column_name \in DataColumns,
           data_type \in DataTypeCodes, tooltips \in TooltipLists \cup {Omitted, PyNone},
           stroke \in Strokes, strokeWidth \in StrokeWidths,
           legend_title \in LegendTitles, scheme \in Schemes,
           missing_color \in MissingColors :
            Start("create_plot",
                  PlotArgs(PlotTable(keys), column_name, data_type, tooltips, stroke,
                           strokeWidth, legend_title, scheme, missing_color),
                  PlotTable(keys), Default(tooltips, PyNone))

InitPreset ==
    \E n \in 0..MaxPlotRows :
        \E f \in {"create_quantitative_plot", "create_nominal_plot"},
           keys \in [1..n -> KeyCells], column_name \in DataColumns,
           stroke \in Strokes, strokeWidth \in StrokeWidths,
           legend_title \in LegendTitles, scheme \in Schemes,
           missing_color \in MissingColors :
            Start(f,
                  PlotArgs(PlotTable(keys), column_name, Omitted, Omitted, stroke,
                           strokeWidth, legend_title, scheme, missing_color),
                  PlotTable(keys), PyNone)

Init ==
    \/ InitValidateData
    \/ InitRead
    \/ InitCreatePlot
    \/ InitPreset

CallValidateData ==
    /\ pc = "call"
    /\ fn = "validate_data"
    /\ LET r == ValidateData(data) IN
        /\ ret' = r.ret
        /\ data' = r.data
    /\ pc' = "done"
    /\ UNCHANGED <<fn, args, tooltip_columns>>

CallReadData ==
    /\ pc = "call"
    /\ fn = "read_data"
    /\ ret' = ReadData(args.name, args.encoding, args.delimiter)
    /\ pc' = "done"
    /\ UNCHANGED <<fn, args, data, tooltip_columns>>

CallReadFile ==
    /\ pc = "call"
    /\ fn = "read_file"
    /\ ret' = ReadFile(args.name, args.byte_stream, args.encoding, args.delimiter)
    /\ pc' = "done"
    /\ UNCHANGED <<fn, args, data, tooltip_columns>>

CallCreatePlot ==
    /\ pc = "call"
    /\ fn = "create_plot"
    /\ LET r == CreatePlot(args.topo_data, data, args.column_name, args.data_type,
                           args.tooltip_columns, args.stroke, args.strokeWidth,
                           args.legend_title, args.scheme, args.missing_color)
       IN  /\ ret' = r.ret
           /\ tooltip_columns' = r.tooltip_columns
    /\ pc' = "done"
    /\ UNCHANGED <<fn, args, data>>

CallCreateQuantitativePlot ==
    /\ pc = "call"
    /\ fn = "create_quantitative_plot"
    /\ ret' = CreateQuantitativePlot(args.topo_data, data, args.column_name,
                                     args.stroke, args.strokeWidth, args.legend_title,
                                     args.scheme, args.missing_color).ret
    /\ pc' = "done"
    /\ UNCHANGED <<fn, args, data, tooltip_columns>>

CallCreateNominalPlot ==
    /\ pc = "call"
    /\ fn = "create_nominal_plot"
    /\ ret' = CreateNominalPlot(args.topo_data, data, args.column_name,
                                args.stroke, args.strokeWidth, args.legend_title,
                                args.scheme, args.missing_color).ret
    /\ pc' = "done"
    /\ UNCHANGED <<fn, args, data, tooltip_columns>>

Next ==
    \/ CallValidateData
    \/ CallReadData
    \/ CallReadFile
    \/ CallCreatePlot
    \/ CallCreateQuantitativePlot
    \/ CallCreateNominalPlot

Spec == Init /\ [][Next]_vars

----------------------------------------------------------------------------
(* Vocabulary of the properties. *)

(* name equals s up to the case of each character *)
SameIgnoringCase(name, s) ==
    /\ Len(name) = Len(s)
    /\ \A i \in 1..Len(s) : name[i] \in {LowerChar(s[i]), UpperChar(s[i])}

(* the positions of the columns named 'niscode' case-insensitively *)
KeyPositions(df) == {i \in 1..Len(df) : SameIgnoringCase(df[i].name, S_niscode)}

TheKey(df) == CHOOSE i \in KeyPositions(df) : TRUE

AllInt64(col) == col.dtype = "int64" /\ \A r \in DOMAIN col.cells : IsInt64(col.cells[r])

SomeNotInt64(col) == \E r \in DOMAIN col.cells : ~IsInt64(col.cells[r])

Validated == pc = "done" /\ fn = "validate_data"

----------------------------------------------------------------------------
(* C1: a table with at least two columns, exactly one of them named        *)
(* 'niscode' case-insensitively and holding int64 values, passes           *)
(* validate_data; afterwards that column is labelled exactly 'niscode' at  *)
(* the same position, every other label is unchanged (case included), the  *)
(* number and order of the columns and all cells are unchanged.            *)
C1_RenamesKeyInPlace ==
    (/\ Validated
     /\ Len(args.data) >= 2
     /\ Cardinality(KeyPositions(args.data)) = 1
     /\ AllInt64(args.data[TheKey(args.data)]))
    => /\ ret = Returned(PyNone)
       /\ Len(data) = Len(args.data)
       /\ \A i \in 1..Len(data) :
            /\ data[i].name = IF i = TheKey(args.data) THEN S_niscode
                                                       ELSE args.data[i].name
            /\ data[i].dtype = args.data[i].dtype
            /\ data[i].cells = args.data[i].cells

C1_Witness ==
    /\ Validated
    /\ Len(args.data) = 2
    /\ Labels(args.data) = <<S_Name, S_NisCode>>
    /\ AllInt64(args.data[2])
    /\ Labels(data) = <<S_Name, S_niscode>>
    /\ ret = Returned(PyNone)

(* C2: with at least two columns, validate_data raises 'NIS code column is *)
(* missing' when no label equals 'niscode' case-insensitively and          *)
(* 'multiple columns have NIS code name' when two or more do, whatever the *)
(* columns hold.                                                           *)
C2_MissingOrAmbiguousKey ==
    (Validated /\ Len(args.data) >= 2)
    => /\ Cardinality(KeyPositions(args.data)) = 0
            => ret = Raised("ValueError", MSG_MISSING)
       /\ Cardinality(KeyPositions(args.data)) >= 2
            => ret = Raised("ValueError", MSG_MULTIPLE)

C2_Witness ==
    /\ Validated
    /\ Labels(args.data) = <<S_NisCode, S_niscode>>
    /\ args.data[1].dtype = "int64"
    /\ args.data[2].dtype = "object"
    /\ ret = Raised("ValueError", MSG_MULTIPLE)

(* C3: with at least two columns and exactly one 'niscode' column,         *)
(* validate_data raises the dtype error whenever that column holds a value *)
(* that is not a 64-bit integer (float, text, null, a narrower or a Python *)
(* integer), and returns only when every value is a 64-bit integer.        *)
C3_KeyMustBeInt64 ==
    (/\ Validated
     /\ Len(args.data) >= 2
     /\ Cardinality(KeyPositions(args.data)) = 1)
    => LET key == args.data[TheKey(args.data)] IN
       /\ SomeNotInt64(key) => ret = Raised("ValueError", MSG_DTYPE)
       /\ ret.kind = "return" => AllInt64(key)

C3_Witness ==
    /\ Validated
    /\ Len(args.data) = 2
    /\ Cardinality(KeyPositions(args.data)) = 1
    /\ \E r \in DOMAIN args.data[TheKey(args.data)].cells :
            args.data[TheKey(args.data)].cells[r].type = "float"
    /\ ret = Raised("ValueError", MSG_DTYPE)

(* C4: a table with fewer than two columns is rejected with the            *)
(* too-few-columns error whatever its single column is named and holds,    *)
(* never with a join-key error.                                            *)
C4_TooFewColumnsFirst ==
    (Validated /\ Len(args.data) < 2) => ret = Raised("ValueError", MSG_TOO_FEW)

C4_Witness ==
    /\ Validated
    /\ Len(args.data) = 1
    /\ args.data[1].name = S_NISCODE
    /\ args.data[1].dtype = "object"
    /\ ret = Raised("ValueError", MSG_TOO_FEW)

(* C5: whenever validate_data raises, the DataFrame passed in is left      *)
(* exactly as it was before the call.                                      *)
C5_FailureLeavesTableUntouched ==
    (Validated /\ ret.kind = "raise") => data = args.data

----------------------------------------------------------------------------
(* the last n characters of name *)
LastChars(name, n) == SubSeq(name, Len(name) - n + 1, Len(name))

HasSuffixIgnoringCase(name, suffix) ==
    /\ Len(name) >= Len(suffix)
    /\ SameIgnoringCase(LastChars(name, Len(suffix)), suffix)

(* the branch taken and the parse options passed, without the source *)
Dispatch(outcome) ==
    IF outcome.kind = "raise" THEN <<"raise", outcome.exc, outcome.msg>>
    ELSE IF outcome.value.parser = "pd.read_csv"
    THEN <<"pd.read_csv", outcome.value.encoding, outcome.value.delimiter>>
    ELSE <<outcome.value.parser>>

HasRead == pc = "done" /\ fn \in {"read_data", "read_file"}

(* C8: both reader shapes dispatch on the case-insensitive suffix of the   *)
(* name alone: '.csv' parses delimited text with the encoding and the      *)
(* delimiter supplied (None when not supplied), '.xlsx' parses a           *)
(* spreadsheet and passes neither option, any other name raises ValueError *)
(* with the name in its message; read_data and read_file take the same     *)
(* branch with the same options for the same name.                         *)
C8_DispatchOnSuffix ==
    HasRead =>
        /\ IF HasSuffixIgnoringCase(args.name, S_csv)
           THEN /\ ret.kind = "return"
                /\ ret.value.parser = "pd.read_csv"
                /\ ret.value.encoding = OrNone(args.encoding)
                /\ ret.value.delimiter = OrNone(args.delimiter)
           ELSE IF HasSuffixIgnoringCase(args.name, S_xlsx)
           THEN /\ ret.kind = "return"
                /\ ret.value.parser = "pd.read_excel"
                /\ DOMAIN ret.value = {"parser", "source"}
           ELSE /\ ret.kind = "raise"
                /\ ret.exc = "ValueError"
                /\ ret.msg.value = args.name
        /\ ret.kind = "return" =>
                ret.value.source = IF fn = "read_data"
                                   THEN [kind |-> "path", of |-> args.name]
                                   ELSE [kind |-> "io.BytesIO", of |-> args.byte_stream]
        /\ Dispatch(ret) = Dispatch(ReadData(args.name, args.encoding, args.delimiter))
        /\ Dispatch(ret) = Dispatch(ReadFile(args.name, args.byte_stream,
                                             args.encoding, args.delimiter))

C8_Witness ==
    /\ HasRead
    /\ fn = "read_file"
    /\ args.name = <<"a", ".", "C", "s", "V">>
    /\ args.encoding = PyStr(S_latin1)
    /\ args.delimiter = PyStr(<<";">>)
    /\ ret.kind = "return"
    /\ ret.value.parser = "pd.read_csv"
    /\ ret.value.delimiter = PyStr(<<";">>)

----------------------------------------------------------------------------
(* Reading a returned chart: how its layers draw the boundary features.    *)

Null == [t |-> "null"]

(* the field a shorthand 'field:T' names *)
FieldOf(shorthand) == PyStr(SubSeq(shorthand.v, 1, Len(shorthand.v) - 2))

TypeOf(shorthand) == PyStr(SubSeq(shorthand.v, Len(shorthand.v), Len(shorthand.v)))

(* the rows of the lookup table whose key equals the feature's code *)
MatchingRows(from, code) ==
    LET key == CHOOSE i \in 1..Len(from.data) : from.data[i].name = from.key
    IN  {r \in DOMAIN from.data[key].cells : from.data[key].cells[r].val = code}

(* the row a lookup attaches to a feature: the last one indexed under the  *)
(* feature's code, none when no row has it                                 *)
LookupRow(from, code) ==
    LET rows == MatchingRows(from, code)
    IN  IF rows = {} THEN {} ELSE {CHOOSE r \in rows : \A q \in rows : q <= r}

(* the value a layer's colour channel has for a feature; Null when the     *)
(* lookup found no row (or fetched no such field)                          *)
ColorValue(layer, code) ==
    IF "value" \in DOMAIN layer.encoding.color THEN layer.encoding.color.value
    ELSE LET field == FieldOf(layer.encoding.color.shorthand) IN
         IF layer.transform = <<>> THEN Null
         ELSE LET from == layer.transform[1].from
                  rows == LookupRow(from, code)
                  cols == {i \in 1..Len(from.data) : PyStr(from.data[i].name) = field}
              IN  IF rows = {} \/ cols = {}
                     \/ \A k \in DOMAIN from.fields : from.fields[k] # field
                  THEN Null
                  ELSE LET last == CHOOSE r \in rows : TRUE
                           col == CHOOSE i \in cols : TRUE
                       IN  from.data[col].cells[last]

(* the layers that have a colour for the feature, bottom first *)
Colouring(chart, code) ==
    SelectSeq(chart.layer, LAMBDA layer : ColorValue(layer, code) # Null)

PlotBuilt == pc = "done" /\ fn = "create_plot"

PresetBuilt == pc = "done" /\ fn \in {"create_quantitative_plot", "create_nominal_plot"}

PresetCode == IF fn = "create_quantitative_plot" THEN PyStr(S_Q) ELSE PyStr(S_N)

(* C6: create_quantitative_plot / create_nominal_plot return what          *)
(* create_plot returns for data_type 'Q' / 'N' with stroke, strokeWidth,   *)
(* legend_title, scheme and missing_color bound to the parameters of the   *)
(* same name.                                                              *)
C6_PresetsBindByName ==
    PresetBuilt =>
        ret = CreatePlot(args.topo_data, args.data, args.column_name, PresetCode, Omitted,
                         Default(args.stroke, PyStr(S_lightgrey)),
                         Default(args.strokeWidth, PyFloat(5)),
                         Default(args.legend_title, PyNone),
                         Default(args.scheme, PyStr(S_reds)),
                         Default(args.missing_color, PyStr(S_white))).ret

(* C7: create_plot called without tooltip_columns returns, and returns the *)
(* chart an empty tooltip list gives: no tooltip fields, the lookup        *)
(* fetching exactly [column_name], colour and legend present.              *)
C7_TooltipsOptional ==
    (PlotBuilt /\ args.tooltip_columns = Omitted)
    => /\ ret.kind = "return"
       /\ ret = CreatePlot(args.topo_data, args.data, args.column_name, args.data_type,
                           PyList(<<>>), args.stroke, args.strokeWidth,
                           args.legend_title, args.scheme, args.missing_color).ret
       /\ ret.value.layer[2].encoding.tooltip = <<>>
       /\ ret.value.layer[2].transform[1].from.fields = <<args.column_name>>

(* C9: for a list of tooltip columns, the lookup joining the features (on  *)
(* properties.CODE_INS) to the rows (on niscode) fetches the data column   *)
(* followed by the tooltip columns in the order given, so the field of the *)
(* colour encoding and every tooltip field is fetched; and the caller's    *)
(* tooltip list is not modified.                                           *)
C9_LookupFetchesAllFields ==
    (PlotBuilt /\ args.tooltip_columns.t = "list")
    => /\ ret.kind = "return"
       /\ LET top == ret.value.layer[2]
              lookup == top.transform[1]
              fetched == {lookup.from.fields[k] : k \in DOMAIN lookup.from.fields}
          IN  /\ Len(top.transform) = 1
              /\ lookup.lookup = "properties.CODE_INS"
              /\ lookup.from.key = S_niscode
              /\ lookup.from.data = args.data
              /\ lookup.from.fields = <<args.column_name>> \o args.tooltip_columns.items
              /\ FieldOf(top.encoding.color.shorthand) \in fetched
              /\ Len(top.encoding.tooltip) = Len(args.tooltip_columns.items)
              /\ \A k \in DOMAIN top.encoding.tooltip :
                    /\ FieldOf(top.encoding.tooltip[k]) = args.tooltip_columns.items[k]
                    /\ FieldOf(top.encoding.tooltip[k]) \in fetched
       /\ tooltip_columns = args.tooltip_columns

C9_Witness ==
    /\ PlotBuilt
    /\ args.column_name = PyStr(S_population)
    /\ args.tooltip_columns = PyList(<<PyStr(S_Name), PyStr(S_population)>>)
    /\ ret.kind = "return"
    /\ ret.value.layer[2].transform[1].from.fields
          = <<PyStr(S_population), PyStr(S_Name), PyStr(S_population)>>

====
